---------------------------- MODULE Spec2Model ----------------------------
(***************************************************************************)
(* PivotOnTheGO: the process/service lifecycle coordinator (cmd/ui, the    *)
(* HTTP handlers that start, stop and report the ligolo proxy subprocess   *)
(* and the ad-hoc file server) and the scout session runner                *)
(* (core/fs_scout.go).                                                     *)
(*                                                                         *)
(* Every HTTP request is served on its own goroutine, so a handler is a    *)
(* sequence of steps of one client; the steps are cut where the handler    *)
(* blocks while it holds its mutex (spawn/bind, Shutdown).  A request      *)
(* whose goroutine is blocked in Lock() has done nothing yet: it is a      *)
(* client whose handler step is not enabled.                               *)
(***************************************************************************)
EXTENDS Naturals, Sequences, FiniteSets

\* ------------------------------------------------------------------ bounds
NumClients == 2     \* concurrent HTTP requests in flight
MaxProcs == 2       \* proxy processes that exist at once (process table)
MaxSrvs == 2        \* file-server instances that exist at once
MaxOutLines == 3    \* lines of captured stdout handed to a normaliser
MaxErrLines == 1    \* lines of captured stderr handed to a normaliser
MaxNameLen == 3     \* characters of a filename query parameter

Clients == 1..NumClients
Pids == 1..MaxProcs
Sids == 1..MaxSrvs

NoHandle == 0       \* a nil *exec.Cmd / *http.Server
NoClient == 0       \* an unlocked sync.Mutex

\* net/http status codes used by the handlers
StatusOK == 200
StatusBadRequest == 400
StatusConflict == 409
StatusInternalServerError == 500

VARIABLES
    proxyMu,    \* the client holding proxyMu, or NoClient
    proxyCmd,   \* the stored *exec.Cmd: a pid, or NoHandle
    fileSrvMu,  \* the client holding fileSrvMu, or NoClient
    fileSrv,    \* the stored *http.Server: a server id, or NoHandle
    procs,      \* pid -> "free" | "running" | "killed" | "exited"
    reapers,    \* pids a `go cmd.Wait()` goroutine is waiting on
    srvs,       \* sid -> "free" | "bound" | "serving" | "failed" | "closing" | "draining"
    pc,         \* client -> "idle" | "made" | "shut": where its handler stands
    op,         \* client -> the endpoint whose handler it is inside, or ""
    loc,        \* client -> the cmd / srv local of a Start between acquire and store
    reply,      \* the response the step just taken wrote, or NoReply
    last,       \* kind -> the most recent completed Start/Stop of that kind
    scoutReq,   \* the FSScoutRequest RunFSScout was called with
    scoutPc,    \* where RunFSScout stands: "idle" | "called" | "validated" |
                \* "prepared" | "returned"
    scoutLoc,   \* RunFSScout's locals: the normalised depth and mode, outPath
    execd,      \* the external commands run so far, in order
    disk,       \* the paths created under the loot root
    scoutRes,   \* what RunFSScout returned: the FSScoutResult and the error
    writes,     \* the os.WriteFile calls of the backends, in order: the path,
                \* the output the command left, the content written, the outcome
    cfgFile,    \* the config file: absent, unreadable, or holding a Config
    apiReply,   \* the response a handler without lifecycle state just wrote
    query,      \* the query parameters of a GET /api/file-command not yet
                \* served, or NoQuery
    normIn,     \* the captured output handed to a normalisation function
    normOut,    \* the artifact lines it wrote
    normPc,     \* "idle" | "in" | "out"
    calls,      \* caller -> a RunFSScout call running beside another: its
                \* request, timestamp, artifact path, buffer and position
    artifacts,  \* artifact path -> the lines the file holds
    wrote       \* the callers whose f.Write has returned, in that order

vars == <<proxyMu, proxyCmd, fileSrvMu, fileSrv, procs, reapers, srvs,
          pc, op, loc, reply, last,
          scoutReq, scoutPc, scoutLoc, execd, disk, scoutRes, writes,
          cfgFile, apiReply, query, normIn, normOut, normPc,
          calls, artifacts, wrote>>

proxyVars == <<proxyMu, proxyCmd, procs, reapers>>
fileVars == <<fileSrvMu, fileSrv, srvs>>
coordVars == <<proxyVars, fileVars, pc, op, loc, reply, last>>
scoutVars == <<scoutReq, scoutPc, scoutLoc, execd, disk, scoutRes, writes>>
apiVars == <<cfgFile, apiReply, query>>
normVars == <<normIn, normOut, normPc>>
pairVars == <<calls, artifacts, wrote>>

\* respondJSON(w, status, map[string]string{key: val})
respondJSON(status, key, val) == [code |-> status, key |-> key, val |-> val]

\* respondError(w, status, message)
respondError(status, message) == respondJSON(status, "error", message)

\* json encoding of a bool
Bool(b) == IF b THEN "true" ELSE "false"

\* `last`, the most recent completed Start/Stop of a kind: "started" (a Start that
\* reported started), "conflict" (a Start rejected as already running) or "down"
\* (a Stop, a Start that failed otherwise, or none yet)
NoOp == "down"

NoReply == [op |-> "", code |-> 0, key |-> "", val |-> "", after |-> NoOp]

\* the response r to a call of endpoint o, written when the most recent completed
\* Start/Stop of that kind was `after`
Reply(o, r, after) ==
    [op |-> o, code |-> r.code, key |-> r.key, val |-> r.val, after |-> after]

\* ------------------------------------------------------------ environment

\* core.LoadConfig: the file is read, is absent, or cannot be read/parsed
LoadOutcomes == {"ok", "notexist", "error"}

\* the file_directory values a config file can hold, and what os.Stat finds
Dirs == {"", "/missing", "/file", "/dir"}
LootDir == "/loot"

Stat(path) ==
    CASE path = "/dir" -> "dir"
      [] path = LootDir -> "dir"
      [] path = "/file" -> "file"
      [] OTHER -> "err"

\* core.SanitizeConfig, the FileDirectory field: an empty directory becomes the
\* loot directory when InitLootDir succeeds
SanitizeFileDirectory(dir, lootOk) ==
    IF dir = "" THEN (IF lootOk THEN LootDir ELSE "") ELSE dir

\* the cfg.FileDirectory handleFileStart works with: LoadConfig (defaults when the
\* file is absent), then SanitizeConfig
FileDirectoryOf(load, dir, lootOk) ==
    SanitizeFileDirectory(IF load = "notexist" THEN "" ELSE dir, lootOk)

\* `cfg.FileDirectory == ""`, then `statErr != nil || !info.IsDir()`
ValidFileDirectory(fileDirectory) ==
    fileDirectory # "" /\ Stat(fileDirectory) = "dir"

\* how handleStartProxy leaves its if-chain: LoadConfig fails other than by a
\* missing file, cmd.Start() fails, or a process was started
ProxyStartOutcome(load, startErr) ==
    IF load = "error" THEN "load_failed"
    ELSE IF startErr THEN "start_failed"
    ELSE "spawned"

\* how handleFileStart leaves its if-chain: LoadConfig fails, the directory is
\* empty or no directory, net.Listen fails, or a listener was bound
FileStartOutcome(load, dir, lootOk, listenErr) ==
    IF load = "error" THEN "load_failed"
    ELSE IF ~ValidFileDirectory(FileDirectoryOf(load, dir, lootOk))
         THEN "invalid_dir"
    ELSE IF listenErr THEN "start_failed"
    ELSE "bound"

FreePids == {p \in Pids : procs[p] = "free"}
FreeSids == {s \in Sids : srvs[s] = "free"}

\* fork and listen fail when the process table / the port space is exhausted, and
\* may fail anyway
StartErrs == IF FreePids = {} THEN {TRUE} ELSE BOOLEAN
ListenErrs == IF FreeSids = {} THEN {TRUE} ELSE BOOLEAN

ProxyStartOutcomes ==
    {ProxyStartOutcome(load, e) : load \in LoadOutcomes, e \in StartErrs}

FileStartOutcomes ==
    {FileStartOutcome(x[1], x[2], x[3], x[4]) :
        x \in LoadOutcomes \X Dirs \X BOOLEAN \X ListenErrs}

\* net/http serves each request on a goroutine of its own; which one is of no
\* consequence, so a new request takes the first that is not inside a handler
Idle == {c \in Clients : pc[c] = "idle"}
Fresh(c) == c \in Idle /\ \A d \in Idle : c <= d

\* ------------------------------------------------------- faulty variants
\* Each of these is a wrong version of the definition named in its comment;
\* a property that is about that definition fails with it.

\* TryLock without mutual exclusion
TryLockNoGuard(mu) == TRUE

\* TryLock on one mutex shared by both kinds
TryLockShared(mu) == proxyMu = NoClient /\ fileSrvMu = NoClient

\* AlreadyRunning without the check
AlreadyRunningNever(handle) == FALSE

\* AlreadyRunning with the check turned around
AlreadyRunningInverted(handle) == handle = NoHandle

\* ProxyRunning that looks at the process
ProxyRunningProbe == proxyCmd # NoHandle /\ procs[proxyCmd] = "running"

\* FileServerRunning that looks at the listener
FileServerRunningProbe == fileSrv # NoHandle /\ srvs[fileSrv] = "serving"

\* AfterFailedStart that stores the command it failed to start
AfterFailedStartStores(handle) == handle + 1

\* ReleaseHandle that forgets the assignment
ReleaseHandleKeeps(handle) == handle

\* GoWait that starts no goroutine
GoWaitNone(waiting, handle) == waiting

\* Stopped that reports a termination that failed
StoppedUnlessFailed(failed) ==
    IF failed THEN respondError(StatusInternalServerError, "failed to stop")
    ELSE respondJSON(StatusOK, "status", "stopped")

\* Unlock that leaves the mutex locked
UnlockForgotten(mu) == mu

\* StopNotRunning as an error
StopNotRunningError == respondError(StatusConflict, "not running")

\* ---------------------------------------------------------------- guards

\* sync.Mutex.Lock returns only when the mutex is free
TryLock(mu) == mu = NoClient

\* the deferred sync.Mutex.Unlock of a handler that returns
Unlock(mu) == NoClient

\* `if proxyCmd != nil` / `if fileSrv != nil`
AlreadyRunning(handle) == handle # NoHandle

\* `running := proxyCmd != nil`
ProxyRunning == proxyCmd # NoHandle

\* `running := fileSrv != nil`
FileServerRunning == fileSrv # NoHandle

\* a Start that returns on an error path assigns nothing to the handle
AfterFailedStart(handle) == handle

\* `proxyCmd = nil` / `fileSrv = nil` at the end of Stop
ReleaseHandle(handle) == NoHandle

\* `go func(cmd *exec.Cmd) { _ = cmd.Wait() }(proxyCmd)`
GoWait(waiting, handle) == waiting \cup {handle}

\* the answer of a Stop that found a handle, whether Kill returned an error or
\* Shutdown ran into its timeout (`_ = ...Kill()`, the log.Printf) or not
Stopped(failed) == respondJSON(StatusOK, "status", "stopped")

\* the answer of a Stop that finds no handle
StopNotRunning == respondJSON(StatusOK, "status", "not_running")

\* os.Process.Kill: SIGKILL is queued, the process exits later; a failed
\* Kill (its error is dropped) leaves the process as it was
Kill(state, killErr) ==
    IF killErr THEN state
    ELSE IF state = "running" THEN "killed" ELSE state

\* ---------------------------------------------------------------- clients

\* the handler of client c's call of endpoint o writes response r and returns
Answer(c, o, r, after) ==
    /\ reply' = Reply(o, r, after)
    /\ pc' = [pc EXCEPT ![c] = "idle"]
    /\ op' = [op EXCEPT ![c] = ""]
    /\ loc' = [loc EXCEPT ![c] = NoHandle]

\* the handler of client c's call of endpoint o blocks at `at`, holding its mutex
Block(c, o, at, made) ==
    /\ reply' = NoReply
    /\ pc' = [pc EXCEPT ![c] = at]
    /\ op' = [op EXCEPT ![c] = o]
    /\ loc' = [loc EXCEPT ![c] = made]

\* ------------------------------------------------------------------ proxy

\* handleStartProxy from Lock() to the return of an error path, or to the
\* return of core.StartProxy with a started process
handleStartProxy(c) ==
    /\ Fresh(c)
    /\ TryLock(proxyMu)
    /\ UNCHANGED <<fileVars, reapers, scoutVars, apiVars, normVars,
                   pairVars>>
    /\ \/ /\ AlreadyRunning(proxyCmd)
          /\ Answer(c, "start-proxy",
                    respondError(StatusConflict, "proxy already running"),
                    last.proxy)
          /\ last' = [last EXCEPT !.proxy = "conflict"]
          /\ UNCHANGED <<proxyMu, proxyCmd, procs>>
       \/ /\ ~AlreadyRunning(proxyCmd)
          /\ \E out \in ProxyStartOutcomes :
                \/ /\ out = "load_failed"
                   /\ Answer(c, "start-proxy",
                             respondError(StatusInternalServerError,
                                          "failed to load config"),
                             last.proxy)
                   /\ last' = [last EXCEPT !.proxy = "down"]
                   /\ proxyCmd' = AfterFailedStart(proxyCmd)
                   /\ UNCHANGED <<proxyMu, procs>>
                \/ /\ out = "start_failed"
                   /\ Answer(c, "start-proxy",
                             respondError(StatusInternalServerError,
                                          "failed to start proxy"),
                             last.proxy)
                   /\ last' = [last EXCEPT !.proxy = "down"]
                   /\ proxyCmd' = AfterFailedStart(proxyCmd)
                   /\ UNCHANGED <<proxyMu, procs>>
                \/ /\ out = "spawned"
                   /\ LET p == CHOOSE q \in FreePids : \A r \in FreePids : q <= r
                      IN /\ procs' = [procs EXCEPT ![p] = "running"]
                         /\ Block(c, "start-proxy", "made", p)
                   /\ proxyMu' = c
                   /\ UNCHANGED <<proxyCmd, last>>

\* handleStartProxy from `proxyCmd = cmd` to the deferred Unlock
handleStartProxyStore(c) ==
    /\ pc[c] = "made" /\ op[c] = "start-proxy"
    /\ proxyCmd' = loc[c]
    /\ proxyMu' = Unlock(proxyMu)
    /\ Answer(c, "start-proxy", respondJSON(StatusOK, "status", "started"),
              last.proxy)
    /\ last' = [last EXCEPT !.proxy = "started"]
    /\ UNCHANGED <<fileVars, procs, reapers, scoutVars, apiVars, normVars,
                   pairVars>>

\* handleStopProxy: Lock, the not-running answer or Kill, go Wait, clear, Unlock
handleStopProxy(c) ==
    /\ Fresh(c)
    /\ TryLock(proxyMu)
    /\ UNCHANGED <<fileVars, proxyMu, scoutVars, apiVars, normVars,
                   pairVars>>
    /\ \/ /\ proxyCmd = NoHandle
          /\ Answer(c, "stop-proxy", StopNotRunning, last.proxy)
          /\ last' = [last EXCEPT !.proxy = "down"]
          /\ UNCHANGED <<proxyCmd, procs, reapers>>
       \/ /\ proxyCmd # NoHandle
          /\ \E killErr \in BOOLEAN :
                /\ procs' = [procs EXCEPT ![proxyCmd] = Kill(@, killErr)]
                /\ Answer(c, "stop-proxy", Stopped(killErr), last.proxy)
          /\ reapers' = GoWait(reapers, proxyCmd)
          /\ proxyCmd' = ReleaseHandle(proxyCmd)
          /\ last' = [last EXCEPT !.proxy = "down"]

\* handleStatus
handleStatus(c) ==
    /\ Fresh(c)
    /\ TryLock(proxyMu)
    /\ Answer(c, "status",
              respondJSON(StatusOK, "proxy_running", Bool(ProxyRunning)),
              last.proxy)
    /\ UNCHANGED <<proxyVars, fileVars, last, scoutVars, apiVars, normVars,
                   pairVars>>

\* the proxy process ends: on its own (exit, crash) or from a queued SIGKILL
ProcExits(p) ==
    /\ procs[p] \in {"running", "killed"}
    /\ procs' = [procs EXCEPT ![p] = "exited"]
    /\ reply' = NoReply
    /\ UNCHANGED <<proxyMu, proxyCmd, reapers, fileVars, pc, op, loc, last,
                   scoutVars, apiVars, normVars,
                   pairVars>>

\* the `go func(cmd) { _ = cmd.Wait() }` goroutine returns
Reap(p) ==
    /\ p \in reapers
    /\ procs[p] = "exited"
    /\ procs' = [procs EXCEPT ![p] = "free"]
    /\ reapers' = reapers \ {p}
    /\ reply' = NoReply
    /\ UNCHANGED <<proxyMu, proxyCmd, fileVars, pc, op, loc, last, scoutVars, apiVars, normVars,
                   pairVars>>

\* ------------------------------------------------------------ file server

\* handleFileStart from Lock() to the return of an error path, or to the
\* return of net.Listen with a bound listener
handleFileStart(c) ==
    /\ Fresh(c)
    /\ TryLock(fileSrvMu)
    /\ UNCHANGED <<proxyVars, scoutVars, apiVars, normVars,
                   pairVars>>
    /\ \/ /\ AlreadyRunning(fileSrv)
          /\ Answer(c, "file-start",
                    respondError(StatusConflict, "file server already running"),
                    last.file)
          /\ last' = [last EXCEPT !.file = "conflict"]
          /\ UNCHANGED <<fileSrvMu, fileSrv, srvs>>
       \/ /\ ~AlreadyRunning(fileSrv)
          /\ \E out \in FileStartOutcomes :
                \/ /\ out = "load_failed"
                   /\ Answer(c, "file-start",
                             respondError(StatusInternalServerError,
                                          "failed to load config"),
                             last.file)
                   /\ last' = [last EXCEPT !.file = "down"]
                   /\ fileSrv' = AfterFailedStart(fileSrv)
                   /\ UNCHANGED <<fileSrvMu, srvs>>
                \/ /\ out = "invalid_dir"
                   /\ Answer(c, "file-start",
                             respondError(StatusBadRequest,
                                          "invalid file directory"),
                             last.file)
                   /\ last' = [last EXCEPT !.file = "down"]
                   /\ fileSrv' = AfterFailedStart(fileSrv)
                   /\ UNCHANGED <<fileSrvMu, srvs>>
                \/ /\ out = "start_failed"
                   /\ Answer(c, "file-start",
                             respondError(StatusInternalServerError,
                                          "failed to start file server"),
                             last.file)
                   /\ last' = [last EXCEPT !.file = "down"]
                   /\ fileSrv' = AfterFailedStart(fileSrv)
                   /\ UNCHANGED <<fileSrvMu, srvs>>
                \/ /\ out = "bound"
                   /\ LET s == CHOOSE q \in FreeSids : \A r \in FreeSids : q <= r
                      IN /\ srvs' = [srvs EXCEPT ![s] = "bound"]
                         /\ Block(c, "file-start", "made", s)
                   /\ fileSrvMu' = c
                   /\ UNCHANGED <<fileSrv, last>>

\* handleFileStart from `fileSrv = srv` and `go s.Serve(l)` to the deferred Unlock
handleFileStartStore(c) ==
    /\ pc[c] = "made" /\ op[c] = "file-start"
    /\ fileSrv' = loc[c]
    /\ srvs' = [srvs EXCEPT ![loc[c]] = "serving"]
    /\ fileSrvMu' = Unlock(fileSrvMu)
    /\ Answer(c, "file-start", respondJSON(StatusOK, "status", "started"),
              last.file)
    /\ last' = [last EXCEPT !.file = "started"]
    /\ UNCHANGED <<proxyVars, scoutVars, apiVars, normVars,
                   pairVars>>

\* handleFileStop from Lock() to the not-running answer, or into
\* fileSrv.Shutdown(ctx): Shutdown closes the listener at once and then waits
\* for the connections, until the context expires
handleFileStop(c) ==
    /\ Fresh(c)
    /\ TryLock(fileSrvMu)
    /\ UNCHANGED <<proxyVars, fileSrv, scoutVars, apiVars, normVars,
                   pairVars>>
    /\ \/ /\ fileSrv = NoHandle
          /\ Answer(c, "file-stop", StopNotRunning, last.file)
          /\ last' = [last EXCEPT !.file = "down"]
          /\ UNCHANGED <<fileSrvMu, srvs>>
       \/ /\ fileSrv # NoHandle
          /\ srvs' = [srvs EXCEPT ![fileSrv] = "closing"]
          /\ fileSrvMu' = c
          /\ Block(c, "file-stop", "shut", NoHandle)
          /\ UNCHANGED last

\* handleFileStop from Shutdown's return (all connections done, or the context
\* expired with connections still open) to the deferred Unlock
handleFileStopDone(c) ==
    /\ pc[c] = "shut" /\ op[c] = "file-stop"
    /\ \E timedOut \in BOOLEAN :
          /\ srvs' = [srvs EXCEPT ![fileSrv] =
                         IF timedOut THEN "draining" ELSE "free"]
          /\ Answer(c, "file-stop", Stopped(timedOut), last.file)
    /\ fileSrv' = ReleaseHandle(fileSrv)
    /\ fileSrvMu' = Unlock(fileSrvMu)
    /\ last' = [last EXCEPT !.file = "down"]
    /\ UNCHANGED <<proxyVars, scoutVars, apiVars, normVars,
                   pairVars>>

\* handleFileStatus
handleFileStatus(c) ==
    /\ Fresh(c)
    /\ TryLock(fileSrvMu)
    /\ Answer(c, "file-status",
              respondJSON(StatusOK, "file_server_running",
                          Bool(FileServerRunning)),
              last.file)
    /\ UNCHANGED <<proxyVars, fileVars, last, scoutVars, apiVars, normVars,
                   pairVars>>

\* the background `s.Serve(l)` returns an error other than ErrServerClosed:
\* it is logged, the listener is closed, nothing else happens
ServeFails(s) ==
    /\ srvs[s] = "serving"
    /\ srvs' = [srvs EXCEPT ![s] = "failed"]
    /\ reply' = NoReply
    /\ UNCHANGED <<proxyVars, fileSrvMu, fileSrv, pc, op, loc, last, scoutVars, apiVars, normVars,
                   pairVars>>

\* the connections a timed-out Shutdown left open finish
Drained(s) ==
    /\ srvs[s] = "draining"
    /\ srvs' = [srvs EXCEPT ![s] = "free"]
    /\ reply' = NoReply
    /\ UNCHANGED <<proxyVars, fileSrvMu, fileSrv, pc, op, loc, last, scoutVars, apiVars, normVars,
                   pairVars>>

\* ------------------------------------------------------------------ scout

\* a host is a string of characters, the other request fields are opaque strings
Hosts == {<<>>, <<"h">>, <<" ">>, <<".", ".">>, <<".", ".", "/", "h">>}
Protocols == {"ssh", "smb", "ftp", "evil-winrm", "telnet"}
Requests ==
    [Protocol : Protocols, Host : Hosts, Port : {0, 2222},
     Username : {"", "u"}, Password : {"", "p", "q"}, SMBShare : {"", "C$"},
     StartDir : {"", "/srv"}, Depth : {0, 2}, Mode : {"", "stealth"}]

\* the protocol's default port
DefaultPortSSH == 22
DefaultPortWinRM == 5985
\* `req.Depth = 3`
DefaultDepth == 3

\* time.Now().Format("2006-01-02_15-04-05"): the seconds a call can fall in
Timestamps == {"2024-01-01_00-00-00", "2024-01-01_00-00-01"}

\* DefaultLootDir()
LootRoot == <<"loot">>

\* FSScoutResult{}
EmptyResult ==
    [OutputFile |-> <<>>, Protocol |-> "", Mode |-> "", Host |-> <<>>,
     Error |-> ""]

NoLocals == [Depth |-> 0, Mode |-> "", outPath |-> <<>>]

RECURSIVE TrimLeft(_)
TrimLeft(h) ==
    IF h # <<>> /\ Head(h) = " " THEN TrimLeft(Tail(h)) ELSE h

RECURSIVE TrimRight(_)
TrimRight(h) ==
    IF h # <<>> /\ h[Len(h)] = " " THEN TrimRight(SubSeq(h, 1, Len(h) - 1))
    ELSE h

\* strings.TrimSpace
TrimSpace(h) == TrimRight(TrimLeft(h))

\* strings.ReplaceAll(h, old, new) for one-character old and new
ReplaceAll(h, old, new) ==
    [i \in 1..Len(h) |-> IF h[i] = old THEN new ELSE h[i]]

\* sanitizeHost
sanitizeHost(h) == ReplaceAll(ReplaceAll(TrimSpace(h), ":", "_"), "/", "_")

\* filepath.Join(dir, elem) for an elem without a separator: Join cleans the
\* result, so an empty or "." element is dropped and ".." names the parent
Join(dir, elem) ==
    IF elem = <<>> \/ elem = <<".">> THEN dir
    ELSE IF elem = <<".", ".">>
         THEN (IF dir = <<>> THEN <<>> ELSE SubSeq(dir, 1, Len(dir) - 1))
    ELSE Append(dir, elem)

\* fsBase := filepath.Join(lootDir, "fs", sanitizeHost(req.Host))
fsBase(req) == Join(Append(LootRoot, "fs"), sanitizeHost(req.Host))

\* outName := fmt.Sprintf("%s_%s_%s.txt", ts, req.Protocol, req.Mode)
outName(ts, protocol, mode) == <<ts, protocol, mode, ".txt">>

\* the checks at the head of RunFSScout: the error returned, or "" when the
\* request passes
ValidationError(req) ==
    IF req.Host = <<>> THEN "host is required"
    ELSE IF req.Username = "" \/ req.Password = ""
         THEN "username and password are required"
    ELSE IF req.StartDir = "" THEN "start directory is required"
    ELSE ""

\* ---------------------------------------------------------- normalisation
\* A text is the sequence of lines strings.Split(text, "\n") yields (never
\* empty: a text without a newline is one line); a line is a sequence of
\* symbols.  " " stands for white space, the markers below each stand for the
\* substring of that spelling, any other symbol for an ordinary character.

PermissionDenied == "Permission denied"
AccessDenied == "NT_STATUS_ACCESS_DENIED"
FilePrefix == "FILE|"
DeniedPrefix == "DENIED|"

\* strings.Contains(line, marker)
Contains(line, marker) == \E i \in 1..Len(line) : line[i] = marker

\* strings.HasPrefix(line, marker)
HasPrefix(line, marker) == line # <<>> /\ Head(line) = marker

\* the leading run of symbols that are not white space
RECURSIVE Run(_)
Run(l) ==
    IF l = <<>> \/ Head(l) = " " THEN <<>> ELSE <<Head(l)>> \o Run(Tail(l))

\* strings.Fields(l)[0] of a line that is not blank
FirstField(l) == Run(TrimLeft(l))

\* SSHDenied that takes every line of stderr
SSHDeniedAny(line) == TRUE

\* `strings.Contains(line, "Permission denied")`
SSHDenied(line) == Contains(line, PermissionDenied)

\* the loop of writeFSScoutOutputSSH over stdout
RECURSIVE sshStdout(_, _)
sshStdout(lines, buf) ==
    IF lines = <<>> THEN buf
    ELSE LET line == TrimSpace(Head(lines))
         IN IF line = <<>> THEN sshStdout(Tail(lines), buf)
            ELSE sshStdout(Tail(lines), Append(buf, <<FilePrefix>> \o line))

\* the loop of writeFSScoutOutputSSH over stderr
RECURSIVE sshStderr(_, _)
sshStderr(lines, buf) ==
    IF lines = <<>> THEN buf
    ELSE IF SSHDenied(Head(lines))
         THEN sshStderr(Tail(lines),
                        Append(buf, <<DeniedPrefix>> \o TrimSpace(Head(lines))))
         ELSE sshStderr(Tail(lines), buf)

\* writeFSScoutOutputSSH: the buffer handed to os.WriteFile
writeFSScoutOutputSSH(stdout, stderr) == sshStderr(stderr, sshStdout(stdout, <<>>))

\* DotEntry that knows the current directory only
DotEntryCurrentOnly(name) == name = <<".">>

\* `name != "." && name != ".."`, negated
DotEntry(name) == name = <<".">> \/ name = <<".", ".">>

\* the loop of parseAndWriteSMBOutput
RECURSIVE smbLines(_, _)
smbLines(lines, buf) ==
    IF lines = <<>> THEN buf
    ELSE LET l == TrimSpace(Head(lines))
         IN IF l = <<>> THEN smbLines(Tail(lines), buf)
            ELSE IF Contains(l, AccessDenied)
                 THEN smbLines(Tail(lines), Append(buf, <<DeniedPrefix>> \o l))
            ELSE IF DotEntry(FirstField(l)) THEN smbLines(Tail(lines), buf)
            ELSE smbLines(Tail(lines),
                          Append(buf, <<FilePrefix>> \o FirstField(l)))

\* parseAndWriteSMBOutput: the buffer handed to os.WriteFile
parseAndWriteSMBOutput(raw) == smbLines(raw, <<>>)

\* the loop of parseAndWriteFSOutputGeneric
RECURSIVE genericLines(_, _)
genericLines(lines, buf) ==
    IF lines = <<>> THEN buf
    ELSE LET l == TrimSpace(Head(lines))
         IN IF l # <<>> /\ (HasPrefix(l, FilePrefix) \/ HasPrefix(l, DeniedPrefix))
            THEN genericLines(Tail(lines), Append(buf, l))
            ELSE genericLines(Tail(lines), buf)

\* parseAndWriteFSOutputGeneric: the buffer handed to os.WriteFile
parseAndWriteFSOutputGeneric(raw) == genericLines(raw, <<>>)

\* ShareMissing without the check
ShareMissingIgnored(req) == FALSE

\* `if req.SMBShare == ""` at the head of runFSScoutSMB
ShareMissing(req) == req.SMBShare = ""

\* what the external command of a backend can leave in its buffers.  ssh has
\* a buffer each for stdout and stderr; smbclient and evil-winrm write both
\* streams to one buffer, held in stdout here
Captured ==
    {[stdout |-> <<<<>>>>, stderr |-> <<<<>>>>],
     [stdout |-> <<<<"a">>, <<>>>>, stderr |-> <<<<PermissionDenied>>>>],
     [stdout |-> <<<<FilePrefix, "a">>, <<AccessDenied>>, <<".">>>>,
      stderr |-> <<<<>>>>]}

\* what a backend did: the commands it ran and whether cmd.Run() returned an
\* error (none: <<>>), the buffers it handed
\* to os.WriteFile (none: <<>>), and the error it returns ("" is nil)
Ran(cmds, written, err) == [cmds |-> cmds, written |-> written, err |-> err]

\* RunError that lets the write decide
RunErrorWriteFirst(tool, cmdErr, writeErr) ==
    IF writeErr THEN "write failed" ELSE IF cmdErr THEN tool ELSE ""

\* the error of a backend that ran its command and then wrote the artifact:
\* `if err != nil { return fmt.Errorf("... command failed: %w", err) }`, then
\* `return writeErr`
RunError(tool, cmdErr, writeErr) ==
    IF cmdErr THEN tool ELSE IF writeErr THEN "write failed" ELSE ""

\* AttemptWrite that gives up on the output of a failed command
AttemptWriteOnSuccess(content, cmdErr) == IF cmdErr THEN <<>> ELSE <<content>>

\* the write of the artifact follows cmd.Run() whatever it returned
AttemptWrite(content, cmdErr) == <<content>>

\* sshTarget that puts the password in front of the host
sshTargetWithPassword(req) == <<req.Username, ":", req.Password, "@", req.Host>>

\* `target := fmt.Sprintf("%s@%s", req.Username, req.Host)`
sshTarget(req) == <<req.Username, "@", req.Host>>

\* runFSScoutSSH
runFSScoutSSH(req, depth, out, cmdErr, writeErr) ==
    LET port == IF req.Port = 0 THEN DefaultPortSSH ELSE req.Port
        args == <<"-p", port, sshTarget(req),
                  "find", req.StartDir, "-maxdepth", depth,
                  "-type", "f", "-printf", "%p\n">>
    IN Ran(<<[name |-> "ssh", args |-> args, failed |-> cmdErr]>>,
           AttemptWrite(writeFSScoutOutputSSH(out.stdout, out.stderr), cmdErr),
           RunError("ssh command failed", cmdErr, writeErr))

\* runFSScoutSMB
runFSScoutSMB(req, out, cmdErr, writeErr) ==
    IF ShareMissing(req)
    THEN Ran(<<>>, <<>>, "SMB share name is required for smb protocol")
    ELSE LET target == <<"//", req.Host, "/", req.SMBShare>>
             userArg == <<req.Username, "%", req.Password>>
             args == <<target, "-U", userArg, "-c", "recurse; ls">>
         IN Ran(<<[name |-> "smbclient", args |-> args, failed |-> cmdErr]>>,
                AttemptWrite(parseAndWriteSMBOutput(out.stdout), cmdErr),
                RunError("smbclient command failed", cmdErr, writeErr))

\* runFSScoutEvilWinRM
runFSScoutEvilWinRM(req, depth, out, cmdErr, writeErr) ==
    LET port == IF req.Port = 0 THEN DefaultPortWinRM ELSE req.Port
        psScript == <<"Walk", req.StartDir, depth>>
        args == <<"-i", req.Host, "-u", req.Username, "-p", req.Password,
                  "-P", port, "-c", psScript>>
    IN Ran(<<[name |-> "evil-winrm", args |-> args, failed |-> cmdErr]>>,
           AttemptWrite(parseAndWriteFSOutputGeneric(out.stdout), cmdErr),
           RunError("evil-winrm command failed", cmdErr, writeErr))

NotImplemented ==
    "FTP auto-scout not implemented yet; use generate-only / manual mode"

\* runFSScoutFTP that reports no error
runFSScoutFTPSilent(req) == Ran(<<>>, <<>>, "")

\* `case FSProtocolFTP: runErr = errors.New("FTP auto-scout not implemented ...")`
runFSScoutFTP(req) == Ran(<<>>, <<>>, NotImplemented)

\* the `switch req.Protocol` of RunFSScout
Dispatch(req, depth, out, cmdErr, writeErr) ==
    CASE req.Protocol = "ssh" -> runFSScoutSSH(req, depth, out, cmdErr, writeErr)
      [] req.Protocol = "smb" -> runFSScoutSMB(req, out, cmdErr, writeErr)
      [] req.Protocol = "ftp" -> runFSScoutFTP(req)
      [] req.Protocol = "evil-winrm" ->
           runFSScoutEvilWinRM(req, depth, out, cmdErr, writeErr)
      [] OTHER -> Ran(<<>>, <<>>, "unsupported protocol")

\* FailedResult that drops the fields of a failed attempt
FailedResultEmpty(res, err) == EmptyResult

\* `res.Error = runErr.Error()`
FailedResult(res, err) == [res EXCEPT !.Error = err]

\* the FSScoutResult of lines 97-108
ResultOf(req, locals, err) ==
    LET res == [OutputFile |-> locals.outPath,
                Protocol |-> req.Protocol,
                Mode |-> locals.Mode,
                Host |-> req.Host,
                Error |-> ""]
    IN IF err # "" THEN FailedResult(res, err) ELSE res

Return(res, err) ==
    /\ scoutRes' = [res |-> res, err |-> err]
    /\ scoutPc' = "returned"

\* RunFSScout: the validation of the request and the defaults of depth and mode
RunFSScoutValidate ==
    /\ scoutPc = "called"
    /\ UNCHANGED <<coordVars, pairVars, apiVars, normVars, scoutReq, execd, disk, writes>>
    /\ \/ /\ ValidationError(scoutReq) # ""
          /\ Return(EmptyResult, ValidationError(scoutReq))
          /\ UNCHANGED scoutLoc
       \/ /\ ValidationError(scoutReq) = ""
          /\ scoutLoc' = [scoutLoc EXCEPT
                !.Depth = IF scoutReq.Depth <= 0 THEN DefaultDepth
                          ELSE scoutReq.Depth,
                !.Mode = IF scoutReq.Mode = "" THEN "fast" ELSE scoutReq.Mode]
          /\ scoutPc' = "validated"
          /\ UNCHANGED scoutRes

\* RunFSScout: DefaultLootDir, MkdirAll of the host directory, the artifact path
RunFSScoutPrepare ==
    /\ scoutPc = "validated"
    /\ UNCHANGED <<coordVars, pairVars, apiVars, normVars, scoutReq, execd, writes>>
    /\ \/ \* DefaultLootDir fails (no home directory)
          /\ Return(EmptyResult, "$HOME is not defined")
          /\ UNCHANGED <<scoutLoc, disk>>
       \/ \* os.MkdirAll fails
          /\ Return(EmptyResult, "mkdir failed")
          /\ UNCHANGED <<scoutLoc, disk>>
       \/ \E ts \in Timestamps :
             /\ disk' = disk \cup {fsBase(scoutReq)}
             /\ scoutLoc' = [scoutLoc EXCEPT !.outPath =
                    Append(fsBase(scoutReq),
                           outName(ts, scoutReq.Protocol, scoutLoc.Mode))]
             /\ scoutPc' = "prepared"
             /\ UNCHANGED scoutRes

\* RunFSScout: the backend (its command, then the write of the artifact) and the
\* result
RunFSScoutDispatch ==
    /\ scoutPc = "prepared"
    /\ UNCHANGED <<coordVars, pairVars, apiVars, normVars, scoutReq, scoutLoc>>
    /\ \E out \in Captured, cmdErr \in BOOLEAN, writeErr \in BOOLEAN :
          LET r == Dispatch(scoutReq, scoutLoc.Depth, out, cmdErr, writeErr)
          IN /\ execd' = execd \o r.cmds
             /\ writes' = writes \o
                   [i \in 1..Len(r.written) |->
                       [path |-> scoutLoc.outPath, from |-> out,
                        content |-> r.written[i], ok |-> ~writeErr]]
             /\ disk' = IF r.written # <<>> /\ ~writeErr
                        THEN disk \cup {scoutLoc.outPath} ELSE disk
             /\ Return(ResultOf(scoutReq, scoutLoc, r.err), r.err)

\* -------------------------------------------------------------- endpoints
\* The handlers that keep no lifecycle state.  A response is the status and
\* the JSON payload; a JSON object is a function of its keys.

StatusMethodNotAllowed == 405

Obj(key, val) == [k \in {key} |-> val]

\* respondJSON(w, status, payload)
respondPayload(status, payload) == [code |-> status, body |-> payload]

\* respondError(w, status, message): map[string]string{"error": message}
respondErrorObj(status, message) == respondPayload(status, Obj("error", message))

\* the response of endpoint o to the call with inputs in
ApiReply(o, in, r) == [op |-> o, in |-> in, code |-> r.code, body |-> r.body]

NoApiReply == [op |-> "", in |-> <<>>, code |-> 0, body |-> <<>>]

\* json.Marshal of an FSScoutResult: `error` has omitempty
ResultJSON(res) ==
    [k \in {"output_file", "protocol", "mode", "host"} \cup
           (IF res.Error # "" THEN {"error"} ELSE {}) |->
        CASE k = "output_file" -> res.OutputFile
          [] k = "protocol" -> res.Protocol
          [] k = "mode" -> res.Mode
          [] k = "host" -> res.Host
          [] OTHER -> res.Error]

\* handleFSScout from the return of core.RunFSScout
handleFSScout ==
    /\ scoutPc = "returned"
    /\ apiReply' = ApiReply("fs-scout", scoutReq,
                            IF scoutRes.err # ""
                            THEN respondPayload(StatusBadRequest,
                                                ResultJSON(scoutRes.res))
                            ELSE respondPayload(StatusOK,
                                                ResultJSON(scoutRes.res)))
    /\ scoutPc' = "answered"
    /\ UNCHANGED <<coordVars, pairVars, normVars, cfgFile, query, scoutReq, scoutLoc,
                   execd, disk, scoutRes, writes>>

\* the Config fields the handlers below read
Configs ==
    [PublicIP : {"", "10.0.0.1"}, FilePort : {0, 9000}, FileDirectory : Dirs]

\* DefaultConfig()
DefaultConfig ==
    [PublicIP |-> "CHANGEME_PUBLIC_IP", FilePort |-> 8000, FileDirectory |-> ""]

\* the config file: absent, not readable or not JSON, or holding a Config
Absent == [state |-> "absent", cfg |-> DefaultConfig]
Unreadable == [state |-> "unreadable", cfg |-> DefaultConfig]
Holding(cfg) == [state |-> "ok", cfg |-> cfg]
CfgFiles ==
    {Absent, Unreadable} \cup {Holding(c) : c \in Configs \cup {DefaultConfig}}

\* SanitizeConfig
SanitizeConfig(cfg, lootOk) ==
    [cfg EXCEPT
       !.FilePort = IF @ <= 0 \/ @ > 65535 THEN 8000 ELSE @,
       !.FileDirectory = SanitizeFileDirectory(@, lootOk)]

\* LoadConfig: the Config and the error ("" is nil)
LoadConfig(file, lootOk) ==
    CASE file.state = "absent" -> [cfg |-> DefaultConfig, err |-> "notexist"]
      [] file.state = "unreadable" -> [cfg |-> DefaultConfig, err |-> "error"]
      [] OTHER -> [cfg |-> SanitizeConfig(file.cfg, lootOk), err |-> ""]

\* `if errors.Is(err, os.ErrNotExist) { cfg = core.DefaultConfig() } else
\* { respondError(500, "failed to load config") }`, then SanitizeConfig: the
\* handler goes on with r[1] unless r[2] is the response it returns with
LoadOrDefault(file, lootOk) ==
    LET l == LoadConfig(file, lootOk)
    IN IF l.err = "error"
       THEN <<l.cfg, respondErrorObj(StatusInternalServerError,
                                     "failed to load config")>>
       ELSE <<SanitizeConfig(IF l.err = "notexist" THEN DefaultConfig
                             ELSE l.cfg, lootOk),
              respondPayload(StatusOK, <<>>)>>

ConfigJSON(cfg) ==
    [k \in {"public_ip", "file_port", "file_directory"} |->
        CASE k = "public_ip" -> cfg.PublicIP
          [] k = "file_port" -> cfg.FilePort
          [] OTHER -> cfg.FileDirectory]

\* handleGetConfig
GetConfig(file, in) ==
    LET r == LoadOrDefault(file, in.lootOk)
    IN IF r[2].code # StatusOK THEN r[2]
       ELSE respondPayload(StatusOK, ConfigJSON(r[1]))

\* handleAgent
Agent(file, in) ==
    IF in.os \notin {"linux", "windows"}
    THEN respondErrorObj(StatusBadRequest, "invalid os")
    ELSE LET r == LoadOrDefault(file, in.lootOk)
         IN IF r[2].code # StatusOK THEN r[2]
            ELSE respondPayload(StatusOK,
                                Obj("command", <<"agent", in.os, r[1].PublicIP>>))

\* handleFileConfig, GET
FileConfigGet(file, in) ==
    LET r == LoadOrDefault(file, in.lootOk)
    IN IF r[2].code # StatusOK THEN r[2]
       ELSE respondPayload(StatusOK,
               [k \in {"file_port", "file_directory"} |->
                   IF k = "file_port" THEN r[1].FilePort
                   ELSE r[1].FileDirectory])

\* InvalidFilename that looks for "/" only
InvalidFilenameSlashOnly(filename) ==
    filename = <<>> \/ Contains(filename, "/")

\* `filename == "" || strings.Contains(filename, "/") ||
\* strings.Contains(filename, "\\") || strings.Contains(filename, "..")`
InvalidFilename(filename) ==
    \/ filename = <<>>
    \/ Contains(filename, "/")
    \/ Contains(filename, "\\")
    \/ \E i \in 1..(Len(filename) - 1) : filename[i] = "." /\ filename[i + 1] = "."

\* the download command of handleFileCommand: the url, then the curl or the
\* Invoke-WebRequest line; a formatted string is the sequence of its pieces
DownloadCommand(os, cfg, filename) ==
    LET url == <<"http://", cfg.PublicIP, ":", cfg.FilePort, "/", filename>>
    IN IF os = "linux"
       THEN <<"curl -o ", filename, " ", url>>
       ELSE <<"powershell -Command \"Invoke-WebRequest -Uri '", url,
              "' -OutFile '", filename, "'\"">>

\* handleFileCommand
FileCommand(file, in) ==
    LET filename == TrimSpace(in.filename)
    IN IF in.os \notin {"linux", "windows"}
       THEN respondErrorObj(StatusBadRequest, "invalid os")
       ELSE IF InvalidFilename(filename)
       THEN respondErrorObj(StatusBadRequest, "invalid filename")
       ELSE LET r == LoadOrDefault(file, in.lootOk)
            IN IF r[2].code # StatusOK THEN r[2]
               ELSE respondPayload(StatusOK,
                       Obj("command", DownloadCommand(in.os, r[1], filename)))

\* ListFileServerDir: the error ("" is nil) and the directory listed
ListFileServerDir(file, lootOk, readErr) ==
    LET l == LoadConfig(file, lootOk)
        root == SanitizeConfig(l.cfg, lootOk).FileDirectory
    IN IF l.err = "notexist"
       THEN [err |-> "file server directory not configured", dir |-> ""]
       ELSE IF l.err # "" THEN [err |-> "config unreadable", dir |-> ""]
       ELSE IF root = ""
       THEN [err |-> "file server directory not configured", dir |-> ""]
       ELSE IF Stat(root) = "err" THEN [err |-> "stat failed", dir |-> ""]
       ELSE IF Stat(root) # "dir"
       THEN [err |-> "file server directory path is not a directory",
             dir |-> ""]
       ELSE IF readErr THEN [err |-> "readdir failed", dir |-> ""]
       ELSE [err |-> "", dir |-> root]

\* handleFileList
FileList(file, in) ==
    LET l == ListFileServerDir(file, in.lootOk, in.readErr)
    IN IF l.err # "" THEN respondErrorObj(StatusBadRequest, l.err)
       ELSE respondPayload(StatusOK, <<"entries", l.dir>>)

\* the handlers that read the config file and write nothing
ReadOps == {"config", "agent", "file-config", "file-command", "file-list"}

Inputs(o) ==
    CASE o \in {"config", "file-config"} -> [lootOk : BOOLEAN]
      [] o = "agent" -> [lootOk : BOOLEAN, os : {"linux", "windows", "mac"}]
      [] o = "file-command" ->
           [lootOk : BOOLEAN, os : {"linux", "windows", "mac"},
            filename : {<<>>, <<"a", "/", "a">>, <<".", ".">>, <<"a">>}]
      [] OTHER -> [lootOk : BOOLEAN, readErr : BOOLEAN]

\* the response of a GET on endpoint o
Respond(o, file, in) ==
    CASE o = "config" -> GetConfig(file, in)
      [] o = "agent" -> Agent(file, in)
      [] o = "file-config" -> FileConfigGet(file, in)
      [] o = "file-command" -> FileCommand(file, in)
      [] OTHER -> FileList(file, in)

\* GET /api/config, /api/agent, /api/file-config, /api/file-command,
\* /api/file-list
handleGet(o) ==
    /\ \E in \in Inputs(o) : apiReply' = ApiReply(o, in, Respond(o, cfgFile, in))
    /\ UNCHANGED <<coordVars, pairVars, scoutVars, normVars, cfgFile, query>>

\* handlePostConfig and the POST of handleFileConfig: decode the payload, load
\* (file-config only), sanitize, SaveConfig
handlePost(o) ==
    /\ \E incoming \in Configs, decodeErr \in BOOLEAN, saveErr \in BOOLEAN,
          lootOk \in BOOLEAN :
          LET in == [lootOk |-> lootOk, decodeErr |-> decodeErr,
                     saveErr |-> saveErr, incoming |-> incoming]
              r == IF o = "file-config" THEN LoadOrDefault(cfgFile, lootOk)
                   ELSE <<incoming, respondPayload(StatusOK, <<>>)>>
              cfg == SanitizeConfig(
                        [incoming EXCEPT !.PublicIP =
                            IF o = "file-config" THEN r[1].PublicIP ELSE @],
                        lootOk)
          IN IF decodeErr
             THEN /\ apiReply' = ApiReply(o, in,
                        respondErrorObj(StatusBadRequest,
                            IF o = "file-config"
                            THEN "invalid file config payload"
                            ELSE "invalid config payload"))
                  /\ UNCHANGED cfgFile
             ELSE IF r[2].code # StatusOK
             THEN /\ apiReply' = ApiReply(o, in, r[2])
                  /\ UNCHANGED cfgFile
             ELSE IF saveErr
             THEN /\ apiReply' = ApiReply(o, in,
                        respondErrorObj(StatusInternalServerError,
                                        "failed to save config"))
                  /\ UNCHANGED cfgFile
             ELSE /\ apiReply' = ApiReply(o, in,
                        respondPayload(StatusOK, Obj("status", "ok")))
                  /\ cfgFile' = Holding(cfg)
    /\ UNCHANGED <<coordVars, pairVars, scoutVars, normVars, query>>

\* handleFSScout: the body does not decode to an FSScoutRequest
handleFSScoutDecode ==
    /\ apiReply' = ApiReply("fs-scout", [decodeErr |-> TRUE],
                            respondErrorObj(StatusBadRequest, "json: bad body"))
    /\ UNCHANGED <<coordVars, pairVars, scoutVars, normVars, cfgFile, query>>

\* the characters of a filename: a letter, the dot, the two separators and
\* white space
NameChars == {"a", ".", "/", "\\", " "}

\* the values of the `filename` query parameter
Filenames == UNION {[1..k -> NameChars] : k \in 0..MaxNameLen}

\* the query parameters of GET /api/file-command and what the environment holds
Queries ==
    [lootOk : BOOLEAN, os : {"linux", "windows", "mac"}, filename : Filenames]

NoQuery == [lootOk |-> FALSE, os |-> "", filename |-> <<>>]

\* handleFileCommand on the request waiting to be served
handleFileCommand ==
    /\ query # NoQuery
    /\ apiReply' = ApiReply("file-command", query,
                            FileCommand(cfgFile, query))
    /\ query' = NoQuery
    /\ UNCHANGED <<coordVars, pairVars, scoutVars, normVars, cfgFile>>

Endpoints ==
    {"config", "start-proxy", "stop-proxy", "status", "agent", "file-config",
     "file-start", "file-stop", "file-status", "file-command", "file-list",
     "fs-scout", "skiddie"}

\* `if r.Method != ... { respondError(w, 405, "method not allowed") }`
handleWrongMethod(o) ==
    /\ apiReply' = ApiReply(o, [method |-> "PUT"],
                            respondErrorObj(StatusMethodNotAllowed,
                                            "method not allowed"))
    /\ UNCHANGED <<coordVars, pairVars, scoutVars, normVars, cfgFile, query>>

\* ------------------------------------------------- normalisers on their own

\* the texts of 1..n lines over a set of lines
Texts(lines, n) == UNION {[1..k -> lines] : k \in 1..n}

SSHOutLines ==
    {<<>>, <<" ">>, <<"a">>, <<" ", "a">>, <<"b">>, <<PermissionDenied>>}
SSHErrLines ==
    {<<>>, <<"a">>, <<PermissionDenied>>, <<" ", PermissionDenied>>,
     <<"a", PermissionDenied>>}
SMBLines ==
    {<<>>, <<" ">>, <<"a">>, <<" ", "a">>, <<".">>, <<".", ".">>, <<".", "a">>,
     <<"a", " ", "b">>, <<".", " ", "a">>, <<AccessDenied>>,
     <<"a", " ", AccessDenied>>}
GenericLines ==
    {<<>>, <<"a">>, <<FilePrefix, "a">>, <<" ", DeniedPrefix, "a">>,
     <<"a", FilePrefix>>}

NoText == <<<<>>>>

NormInputs ==
    [fn : {"ssh"}, stdout : Texts(SSHOutLines, MaxOutLines),
     stderr : Texts(SSHErrLines, MaxErrLines)]
    \cup [fn : {"smb"}, stdout : Texts(SMBLines, MaxOutLines), stderr : {NoText}]
    \cup [fn : {"generic"}, stdout : Texts(GenericLines, MaxOutLines),
          stderr : {NoText}]

\* a call of writeFSScoutOutputSSH
CallWriteFSScoutOutputSSH ==
    /\ normPc = "in" /\ normIn.fn = "ssh"
    /\ normOut' = writeFSScoutOutputSSH(normIn.stdout, normIn.stderr)
    /\ normPc' = "out"
    /\ UNCHANGED <<coordVars, pairVars, scoutVars, apiVars, normIn>>

\* a call of parseAndWriteSMBOutput
CallParseAndWriteSMBOutput ==
    /\ normPc = "in" /\ normIn.fn = "smb"
    /\ normOut' = parseAndWriteSMBOutput(normIn.stdout)
    /\ normPc' = "out"
    /\ UNCHANGED <<coordVars, pairVars, scoutVars, apiVars, normIn>>

\* a call of parseAndWriteFSOutputGeneric
CallParseAndWriteFSOutputGeneric ==
    /\ normPc = "in" /\ normIn.fn = "generic"
    /\ normOut' = parseAndWriteFSOutputGeneric(normIn.stdout)
    /\ normPc' = "out"
    /\ UNCHANGED <<coordVars, pairVars, scoutVars, apiVars, normIn>>

\* ------------------------------------------------------ concurrent scouts
\* Two POST /api/fs-scout requests served at once: nothing in handleFSScout or
\* RunFSScout is guarded by a mutex.  os.WriteFile is OpenFile with O_TRUNC,
\* then Write on the new descriptor (offset 0), then Close; the steps of two
\* calls on one path interleave.  A file is the sequence of its lines.

Callers == {1, 2}

PairHosts == {<<"h">>, <<"h", ":", "g">>, <<"h", "/", "g">>, <<"g">>}

\* two valid requests of the backends that write an artifact
PairRequests ==
    [Protocol : {"ssh", "smb"}, Host : PairHosts, Port : {0}, Username : {"u"},
     Password : {"p"}, SMBShare : {"C$"}, StartDir : {"/srv"}, Depth : {0},
     Mode : {"", "stealth"}]

\* outPath := filepath.Join(fsBase, outName), with the default of the mode
outPath(req, ts) ==
    Append(fsBase(req),
           outName(ts, req.Protocol, IF req.Mode = "" THEN "fast" ELSE req.Mode))

NoCall(req) ==
    [req |-> req, ts |-> "", path |-> <<>>, buf |-> <<>>, pc |-> "called"]

\* RunFSScout of caller k from its head to the call of os.WriteFile: the
\* artifact path of this second, the command, the buffer of normalised lines
RunFSScoutBackend(k) ==
    /\ calls[k].pc = "called"
    /\ \E ts \in Timestamps, out \in Captured :
          LET req == calls[k].req
              r == Dispatch(req, DefaultDepth, out, FALSE, FALSE)
          IN calls' = [calls EXCEPT ![k] =
                          [req |-> req, ts |-> ts, path |-> outPath(req, ts),
                           buf |-> r.written[1], pc |-> "ready"]]
    /\ UNCHANGED <<coordVars, scoutVars, apiVars, normVars, artifacts,
                   wrote>>

\* os.WriteFile: os.OpenFile(name, O_WRONLY|O_CREATE|O_TRUNC, perm)
WriteFileOpen(k) ==
    /\ calls[k].pc = "ready"
    /\ artifacts' = [p \in DOMAIN artifacts \cup {calls[k].path} |->
                    IF p = calls[k].path THEN <<>> ELSE artifacts[p]]
    /\ calls' = [calls EXCEPT ![k].pc = "opened"]
    /\ UNCHANGED <<coordVars, scoutVars, apiVars, normVars, wrote>>

\* what a file holds after data is written at offset 0
WriteAtStart(old, data) ==
    data \o SubSeq(old, Len(data) + 1, Len(old))

\* os.WriteFile: f.Write(data), f.Close()
WriteFileWrite(k) ==
    /\ calls[k].pc = "opened"
    /\ artifacts' = [artifacts EXCEPT ![calls[k].path] =
                        WriteAtStart(@, calls[k].buf)]
    /\ wrote' = Append(wrote, k)
    /\ calls' = [calls EXCEPT ![k].pc = "done"]
    /\ UNCHANGED <<coordVars, scoutVars, apiVars, normVars>>

\* ---------------------------------------------------------- specification

CoordInit ==
    /\ proxyMu = NoClient
    /\ proxyCmd = NoHandle
    /\ fileSrvMu = NoClient
    /\ fileSrv = NoHandle
    /\ procs = [p \in Pids |-> "free"]
    /\ reapers = {}
    /\ srvs = [s \in Sids |-> "free"]
    /\ pc = [c \in Clients |-> "idle"]
    /\ op = [c \in Clients |-> ""]
    /\ loc = [c \in Clients |-> NoHandle]
    /\ reply = NoReply
    /\ last = [proxy |-> NoOp, file |-> NoOp]

ScoutIdle ==
    /\ scoutReq = [Protocol |-> "ssh", Host |-> <<>>, Port |-> 0, Username |-> "",
                   Password |-> "", SMBShare |-> "", StartDir |-> "",
                   Depth |-> 0, Mode |-> ""]
    /\ scoutPc = "idle"
    /\ scoutLoc = NoLocals
    /\ execd = <<>>
    /\ disk = {}
    /\ scoutRes = [res |-> EmptyResult, err |-> ""]
    /\ writes = <<>>

\* one call of RunFSScout with any request
ScoutCalled ==
    /\ scoutReq \in Requests
    /\ scoutPc = "called"
    /\ scoutLoc = NoLocals
    /\ execd = <<>>
    /\ disk = {}
    /\ scoutRes = [res |-> EmptyResult, err |-> ""]
    /\ writes = <<>>

\* no call of a stateless handler yet
ApiIdle ==
    /\ cfgFile = Absent
    /\ apiReply = NoApiReply
    /\ query = NoQuery

\* no scout calls running side by side
PairIdle ==
    /\ calls = <<>>
    /\ artifacts = <<>>
    /\ wrote = <<>>

\* no call of a normaliser
NormIdle ==
    /\ normIn = [fn |-> "", stdout |-> NoText, stderr |-> NoText]
    /\ normOut = <<>>
    /\ normPc = "idle"

Init == CoordInit /\ ScoutIdle /\ ApiIdle /\ NormIdle /\ PairIdle

Next ==
    \/ \E c \in Clients : handleStartProxy(c)
    \/ \E c \in Clients : handleStartProxyStore(c)
    \/ \E c \in Clients : handleStopProxy(c)
    \/ \E c \in Clients : handleStatus(c)
    \/ \E c \in Clients : handleFileStart(c)
    \/ \E c \in Clients : handleFileStartStore(c)
    \/ \E c \in Clients : handleFileStop(c)
    \/ \E c \in Clients : handleFileStopDone(c)
    \/ \E c \in Clients : handleFileStatus(c)
    \/ \E p \in Pids : ProcExits(p)
    \/ \E p \in Pids : Reap(p)
    \/ \E s \in Sids : ServeFails(s)
    \/ \E s \in Sids : Drained(s)

Spec == Init /\ [][Next]_vars

\* POST /api/fs-scout with a body that decodes to any request
ScoutInit == CoordInit /\ ScoutCalled /\ ApiIdle /\ NormIdle /\ PairIdle

ScoutNext ==
    \/ RunFSScoutValidate
    \/ RunFSScoutPrepare
    \/ RunFSScoutDispatch
    \/ handleFSScout

ScoutSpec == ScoutInit /\ [][ScoutNext]_vars

\* the stateless handlers, started with any config file
ApiInit ==
    /\ CoordInit /\ ScoutIdle /\ NormIdle /\ PairIdle
    /\ cfgFile \in CfgFiles
    /\ apiReply = NoApiReply
    /\ query = NoQuery

ApiNext ==
    \/ \E o \in ReadOps : handleGet(o)
    \/ \E o \in {"config", "file-config"} : handlePost(o)
    \/ handleFSScoutDecode
    \/ \E o \in Endpoints : handleWrongMethod(o)

ApiSpec == ApiInit /\ [][ApiNext]_vars

\* one GET /api/file-command with any query, on any config file
CommandInit ==
    /\ CoordInit /\ ScoutIdle /\ NormIdle /\ PairIdle
    /\ cfgFile \in CfgFiles
    /\ apiReply = NoApiReply
    /\ query \in Queries

CommandNext == handleFileCommand

CommandSpec == CommandInit /\ [][CommandNext]_vars

\* two calls of RunFSScout at once, with any two requests
PairInit ==
    /\ CoordInit /\ ScoutIdle /\ ApiIdle /\ NormIdle
    /\ calls \in [Callers -> {NoCall(req) : req \in PairRequests}]
    /\ artifacts = <<>>
    /\ wrote = <<>>

PairNext ==
    \/ \E k \in Callers : RunFSScoutBackend(k)
    \/ \E k \in Callers : WriteFileOpen(k)
    \/ \E k \in Callers : WriteFileWrite(k)

PairSpec == PairInit /\ [][PairNext]_vars

\* one call of a normaliser with any captured output
NormInit ==
    /\ CoordInit /\ ScoutIdle /\ ApiIdle /\ PairIdle
    /\ normIn \in NormInputs
    /\ normOut = <<>>
    /\ normPc = "in"

NormNext ==
    \/ CallWriteFSScoutOutputSSH
    \/ CallParseAndWriteSMBOutput
    \/ CallParseAndWriteFSOutputGeneric

NormSpec == NormInit /\ [][NormNext]_vars


\* ------------------------------------------------------------------ claims

StartOps == {"start-proxy", "file-start"}
StopOps == {"stop-proxy", "file-stop"}

\* the kind's record in `last`, by the endpoint called
LastOf(o) == IF o \in {"start-proxy", "stop-proxy", "status"}
             THEN last.proxy ELSE last.file

\* C1: two Starts of a kind in a row, none of them failing to spawn or bind and
\* no Stop between them: the first, which finds the service not running, is
\* never answered with the conflict, and the second, which follows a Start
\* that reported started, is answered 409 "already running" and starts nothing.
C1_TwoStartsOneConflict ==
    reply.op \in StartOps =>
        /\ reply.after = "started" =>
              /\ reply.code = StatusConflict
              /\ reply.key = "error"
              /\ LastOf(reply.op) = "conflict"
        /\ reply.after = "down" => reply.code # StatusConflict
        /\ reply.val = "started" =>
              /\ reply.code = StatusOK
              /\ reply.after = "down"
              /\ LastOf(reply.op) = "started"

C1_Witness ==
    /\ reply.op = "start-proxy"
    /\ reply.after = "started"
    /\ reply.code = StatusConflict
    /\ proxyCmd # NoHandle

\* the proxy processes that have not exited, the file servers that hold a
\* listener or still serve connections
LiveProcs == {p \in Pids : procs[p] \in {"running", "killed"}}
ServingSrvs == {s \in Sids : srvs[s] \in {"bound", "serving", "closing", "draining"}}

\* C2: at every moment at most one proxy process is alive and at most one
\* file-server instance is serving.
C2_AtMostOneInstance ==
    /\ Cardinality(LiveProcs) <= 1
    /\ Cardinality(ServingSrvs) <= 1

\* the instances a Start has created and no Stop has released yet
OwnedProcs == {p \in Pids : procs[p] # "free" /\ p \notin reapers}
OwnedSrvs == {s \in Sids : srvs[s] \in {"bound", "serving", "failed", "closing"}}
Making(o) == {loc[c] : c \in {d \in Clients : pc[d] = "made" /\ op[d] = o}}

\* C3: each kind has one handle, nil or the one instance that was started and
\* not stopped, and a Status call answers running exactly when it is non-nil.
C3_HandleIsTruth ==
    /\ proxyCmd \in Pids \cup {NoHandle}
    /\ fileSrv \in Sids \cup {NoHandle}
    /\ OwnedProcs = ({proxyCmd} \ {NoHandle}) \cup Making("start-proxy")
    /\ OwnedSrvs = ({fileSrv} \ {NoHandle}) \cup Making("file-start")
    /\ Cardinality(OwnedProcs) <= 1
    /\ Cardinality(OwnedSrvs) <= 1
    /\ reply.op = "status" =>
          /\ reply.code = StatusOK
          /\ reply.key = "proxy_running"
          /\ reply.val = Bool(proxyCmd # NoHandle)
    /\ reply.op = "file-status" =>
          /\ reply.code = StatusOK
          /\ reply.key = "file_server_running"
          /\ reply.val = Bool(fileSrv # NoHandle)

C3_Witness ==
    /\ reply.op = "status"
    /\ reply.val = "true"
    /\ proxyCmd # NoHandle
    /\ procs[proxyCmd] = "exited"

C5_StopIdempotent ==
    [][/\ (reply'.op = "stop-proxy" /\ proxyCmd = NoHandle) =>
             /\ reply'.code = StatusOK
             /\ reply'.key = "status" /\ reply'.val = "not_running"
             /\ proxyCmd' = NoHandle
             /\ UNCHANGED <<procs, reapers, proxyMu>>
       /\ (reply'.op = "file-stop" /\ fileSrv = NoHandle) =>
             /\ reply'.code = StatusOK
             /\ reply'.key = "status" /\ reply'.val = "not_running"
             /\ fileSrv' = NoHandle
             /\ UNCHANGED <<srvs, fileSrvMu>>]_vars

C5_Witness ==
    /\ reply.op = "file-stop"
    /\ reply.val = "not_running"
    /\ reply.code = StatusOK
    /\ fileSrv = NoHandle
    /\ last.file = "down"

\* C6: a Start that finds a handle is answered with the 409 conflict, creates
\* no process or listener and leaves the handle and the instance it names as
\* they were.
C6_StartLeavesRunning ==
    [][/\ (reply'.op = "start-proxy" /\ proxyCmd # NoHandle) =>
             /\ reply'.code = StatusConflict
             /\ reply'.key = "error"
             /\ UNCHANGED <<proxyCmd, procs, reapers>>
       /\ (reply'.op = "file-start" /\ fileSrv # NoHandle) =>
             /\ reply'.code = StatusConflict
             /\ reply'.key = "error"
             /\ UNCHANGED <<fileSrv, srvs>>]_vars

C6_Witness ==
    /\ reply.op = "file-start"
    /\ reply.code = StatusConflict
    /\ fileSrv # NoHandle
    /\ srvs[fileSrv] = "serving"

\* the file_directory values handleFileStart turns down
BadDirectory(load, dir, lootOk) ==
    \/ FileDirectoryOf(load, dir, lootOk) = ""
    \/ Stat(FileDirectoryOf(load, dir, lootOk)) # "dir"

\* C7: a Start that fails stores no handle.  The file server's Start fails with
\* 400 exactly when the directory it would serve is empty, missing or not a
\* directory, and then before a listener is bound; a spawn or bind failure is
\* answered 500.  After any of these the handle is nil, no process or listener
\* is left behind, a Status would report not running, and the next Start is
\* not rejected as already running.
C7_FailedStartStoresNothing ==
    /\ \A load \in LoadOutcomes \ {"error"}, dir \in Dirs, lootOk \in BOOLEAN,
          listenErr \in BOOLEAN :
          /\ BadDirectory(load, dir, lootOk) <=>
                FileStartOutcome(load, dir, lootOk, listenErr) = "invalid_dir"
          /\ (~BadDirectory(load, dir, lootOk) /\ listenErr) =>
                FileStartOutcome(load, dir, lootOk, listenErr) = "start_failed"
    /\ [][/\ (reply'.op = "start-proxy"
                /\ reply'.code \in {StatusBadRequest, StatusInternalServerError}) =>
                /\ proxyCmd' = NoHandle
                /\ ~ProxyRunning'
                /\ last'.proxy = "down"
                /\ UNCHANGED <<procs, reapers>>
          /\ (reply'.op = "file-start"
                /\ reply'.code \in {StatusBadRequest, StatusInternalServerError}) =>
                /\ fileSrv' = NoHandle
                /\ ~FileServerRunning'
                /\ last'.file = "down"
                /\ UNCHANGED srvs
          /\ (reply'.op \in StartOps /\ reply'.after = "down") =>
                reply'.code # StatusConflict]_vars

C7_Witness ==
    /\ reply.op = "file-start"
    /\ reply.code = StatusBadRequest
    /\ reply.val = "invalid file directory"
    /\ fileSrv = NoHandle
    /\ \A s \in Sids : srvs[s] = "free"

\* C8: a Stop that finds a handle asks the instance to terminate (Kill for the
\* proxy process, Shutdown for the file server), reaps the process in the
\* background, sets the handle to nil and answers 200 stopped; a Status would
\* then report not running; and a Stop that waits in Shutdown always returns.
C8_StopReleases ==
    /\ [][/\ (reply'.op = "stop-proxy" /\ proxyCmd # NoHandle) =>
                /\ reply'.code = StatusOK
                /\ reply'.key = "status" /\ reply'.val = "stopped"
                /\ \E killErr \in BOOLEAN :
                      procs'[proxyCmd] = Kill(procs[proxyCmd], killErr)
                /\ proxyCmd \in reapers'
                /\ proxyCmd' = NoHandle
                /\ ~ProxyRunning'
          /\ (reply'.op = "file-stop" /\ fileSrv # NoHandle) =>
                /\ reply'.code = StatusOK
                /\ reply'.key = "status" /\ reply'.val = "stopped"
                /\ srvs[fileSrv] = "closing"
                /\ srvs'[fileSrv] \in {"free", "draining"}
                /\ fileSrv' = NoHandle
                /\ ~FileServerRunning'
                /\ fileSrvMu' = NoClient]_vars
    /\ \A c \in Clients : (pc[c] = "shut") ~> (pc[c] = "idle")

C8_Witness ==
    /\ reply.op = "file-stop"
    /\ reply.val = "stopped"
    /\ fileSrv = NoHandle
    /\ \E s \in Sids : srvs[s] = "draining"

\* C9: an instance that ends on its own (the proxy process exits, the
\* background Serve returns an error) keeps being the handle: no step but a
\* Stop clears it, a Status still answers running and a Start is still
\* rejected as already running.
C9_ExitNotDetected ==
    [][/\ (proxyCmd # NoHandle /\ procs'[proxyCmd] = "exited") =>
             /\ proxyCmd' = proxyCmd \/ reply'.op = "stop-proxy"
             /\ reply'.op = "status" => reply'.val = "true"
             /\ reply'.op = "start-proxy" => reply'.code = StatusConflict
       /\ (fileSrv # NoHandle /\ srvs'[fileSrv] = "failed") =>
             /\ fileSrv' = fileSrv
             /\ reply'.op = "file-status" => reply'.val = "true"
             /\ reply'.op = "file-start" => reply'.code = StatusConflict]_vars

C9_Witness ==
    /\ reply.op = "file-start"
    /\ reply.code = StatusConflict
    /\ fileSrv # NoHandle
    /\ srvs[fileSrv] = "failed"

\* the requests RunFSScout has to reject
Invalid(req) ==
    \/ req.Host = <<>>
    \/ req.Username = ""
    \/ req.Password = ""
    \/ req.StartDir = ""
    \/ req.Protocol = "smb" /\ req.SMBShare = ""

\* C10: a request with an empty host, username, password or start directory,
\* or with protocol smb and an empty share, is rejected with an error whatever
\* its other fields are, and no external command is run for it.
C10_InvalidRejected ==
    Invalid(scoutReq) =>
        /\ execd = <<>>
        /\ scoutPc = "returned" => scoutRes.err # ""

C10_Witness ==
    /\ scoutPc = "returned"
    /\ scoutReq.Protocol = "smb" /\ scoutReq.SMBShare = ""
    /\ ValidationError(scoutReq) = ""
    /\ scoutRes.err = "SMB share name is required for smb protocol"
    /\ execd = <<>>

\* C11: when RunFSScout rejects a request as invalid (a mandatory field empty,
\* or smb without a share) it has had no effect on the file system: the host
\* directory has not been created and no artifact has been written.
C11_RejectedBeforeSideEffect ==
    (scoutPc \in {"returned", "answered"} /\ Invalid(scoutReq)) =>
        (disk = {} /\ writes = <<>>)

\* the buffer a backend makes of the output its command left
Normalised(protocol, out) ==
    CASE protocol = "ssh" -> writeFSScoutOutputSSH(out.stdout, out.stderr)
      [] protocol = "smb" -> parseAndWriteSMBOutput(out.stdout)
      [] OTHER -> parseAndWriteFSOutputGeneric(out.stdout)

CommandFailed(protocol) ==
    CASE protocol = "ssh" -> "ssh command failed"
      [] protocol = "smb" -> "smbclient command failed"
      [] OTHER -> "evil-winrm command failed"

\* C12: once the command of the ssh, smb or evil-winrm backend has returned,
\* with or without an error, the backend normalises what the command left and
\* calls os.WriteFile on the artifact path exactly once; when the command
\* failed RunFSScout returns the command's failure, also when the write
\* succeeded.
C12_AlwaysWrites ==
    (scoutPc \in {"returned", "answered"} /\ execd # <<>>) =>
        /\ Len(execd) = 1 /\ Len(writes) = 1
        /\ writes[1].path = scoutLoc.outPath
        /\ writes[1].content = Normalised(scoutReq.Protocol, writes[1].from)
        /\ execd[1].failed => scoutRes.err = CommandFailed(scoutReq.Protocol)

C12_Witness ==
    /\ scoutPc = "returned"
    /\ execd # <<>> /\ execd[1].failed
    /\ writes # <<>> /\ writes[1].ok
    /\ writes[1].content # <<>>
    /\ scoutRes.err = "smbclient command failed"
    /\ scoutLoc.outPath \in disk

\* C13: a failed write of the artifact is reported whenever it happens, so the
\* caller can tell a failed command whose output was saved from a failed
\* command whose output could not be saved.
C13_WriteFailureReported ==
    (scoutPc \in {"returned", "answered"} /\ writes # <<>> /\ ~writes[1].ok) =>
        (scoutRes.err = "write failed" \/ scoutRes.res.Error = "write failed")

\* C14: when RunFSScout fails because the command of a backend or the write of
\* the artifact failed, it returns an error and a result whose Error is that
\* error's message and not empty, with OutputFile, Protocol, Mode and Host
\* filled in; a call that succeeds returns a result with an empty Error.
C14_FailedResultPopulated ==
    /\ (scoutPc \in {"returned", "answered"} /\ execd # <<>>
          /\ (execd[1].failed \/ ~writes[1].ok)) =>
           /\ scoutRes.err # ""
           /\ scoutRes.res.Error = scoutRes.err
           /\ scoutRes.res.OutputFile = scoutLoc.outPath
           /\ scoutRes.res.OutputFile # <<>>
           /\ scoutRes.res.Protocol = scoutReq.Protocol
           /\ scoutRes.res.Protocol # ""
           /\ scoutRes.res.Mode = scoutLoc.Mode
           /\ scoutRes.res.Mode # ""
           /\ scoutRes.res.Host = scoutReq.Host
           /\ scoutRes.res.Host # <<>>
    /\ (scoutPc \in {"returned", "answered"} /\ scoutRes.err = "") =>
           /\ scoutRes.res.Error = ""
           /\ scoutRes.res.OutputFile = scoutLoc.outPath

C14_Witness ==
    /\ scoutPc = "returned"
    /\ execd # <<>> /\ ~execd[1].failed
    /\ ~writes[1].ok
    /\ scoutRes.err = "write failed"
    /\ scoutRes.res.Error = "write failed"
    /\ scoutRes.res.OutputFile # <<>>
    /\ scoutRes.res.Mode = "fast"

C16_FailureHasError ==
    (apiReply.op # "" /\ apiReply.code \notin 200..299) =>
        /\ "error" \in DOMAIN apiReply.body
        /\ apiReply.body["error"] # ""

\* the class of an error of RunFSScout
ErrorClass(err) ==
    CASE err \in {"host is required", "username and password are required",
                  "start directory is required",
                  "SMB share name is required for smb protocol",
                  "unsupported protocol"} -> "InvalidRequest"
      [] err = NotImplemented -> "NotImplemented"
      [] err \in {"ssh command failed", "smbclient command failed",
                  "evil-winrm command failed"} -> "BackendFailed"
      [] err = "write failed" -> "PersistFailed"
      [] OTHER -> "Environment"

\* C17: the status of a failed call reflects the class of its error; for
\* /api/fs-scout it is 500 when the external tool or the write of the artifact
\* failed and 400 when the request is invalid or the protocol is ftp.
C17_StatusReflectsClass ==
    scoutPc = "answered" =>
        /\ ErrorClass(scoutRes.err) \in {"InvalidRequest", "NotImplemented"}
              => apiReply.code = StatusBadRequest
        /\ ErrorClass(scoutRes.err) \in {"BackendFailed", "PersistFailed"}
              => apiReply.code = StatusInternalServerError

\* C18: a handler that loads the configuration and finds no config file goes
\* on with the default settings: it answers what it answers when the file
\* holds the default settings.
C18_AbsentMeansDefaults ==
    [][(cfgFile = Absent /\ apiReply'.op \in ReadOps
          /\ "lootOk" \in DOMAIN apiReply'.in
          /\ "decodeErr" \notin DOMAIN apiReply'.in) =>
         [code |-> apiReply'.code, body |-> apiReply'.body] =
            Respond(apiReply'.op, Holding(DefaultConfig), apiReply'.in)]_vars

\* a line with a symbol that is not white space
NonBlank(l) == \E i \in 1..Len(l) : l[i] # " "

\* a non-blank line without the white space around it
Strip(l) ==
    LET ix == {i \in 1..Len(l) : l[i] # " "}
        lo == CHOOSE i \in ix : \A j \in ix : i <= j
        hi == CHOOSE i \in ix : \A j \in ix : i >= j
    IN SubSeq(l, lo, hi)

\* the records of the lines of a text, in order, each line giving the
\* records (none or one) in recs
RECURSIVE Records(_, _)
Records(recs, n) == IF n = 0 THEN <<>> ELSE Records(recs, n - 1) \o recs[n]

HasPermissionDenied(l) == \E i \in 1..Len(l) : l[i] = PermissionDenied

FirstToken(l) ==
    LET s == Strip(l)
        k == CHOOSE i \in 1..Len(s) :
                /\ \A j \in 1..i : s[j] # " "
                /\ i = Len(s) \/ s[i + 1] = " "
    IN SubSeq(s, 1, k)

\* C20: the artifact of the smb backend has, in input order, DENIED| and the
\* line for each non-blank line containing NT_STATUS_ACCESS_DENIED, FILE| and
\* the first white-space-delimited token for each other non-blank line whose
\* first token is neither `.` nor `..`, and nothing for the rest; so each of
\* its lines starts with FILE| or DENIED|.
C20_SMBNormalisation ==
    (normPc = "out" /\ normIn.fn = "smb") =>
        LET raw == normIn.stdout
            recs == [i \in 1..Len(raw) |->
                       IF ~NonBlank(raw[i]) THEN <<>>
                       ELSE IF \E j \in 1..Len(raw[i]) : raw[i][j] = AccessDenied
                       THEN <<<<DeniedPrefix>> \o Strip(raw[i])>>
                       ELSE IF FirstToken(raw[i]) \in {<<".">>, <<".", ".">>}
                       THEN <<>>
                       ELSE <<<<FilePrefix>> \o FirstToken(raw[i])>>]
        IN /\ normOut = Records(recs, Len(raw))
           /\ \A i \in 1..Len(normOut) :
                 Head(normOut[i]) \in {FilePrefix, DeniedPrefix}

C20_Witness ==
    /\ normPc = "out" /\ normIn.fn = "smb"
    /\ normIn.stdout = <<<<"a", " ", AccessDenied>>, <<".", ".">>,
                         <<"a", " ", "b">>>>
    /\ normOut = <<<<DeniedPrefix, "a", " ", AccessDenied>>,
                   <<FilePrefix, "a">>>>

\* C21: GET /api/file-command with os linux or windows answers 400 and builds
\* no command for every filename that contains `/`, `\` or `..`; a filename
\* that is embedded in a command, as the output file and at the end of the
\* url, contains none of them.
C21_FilenameRejected ==
    (apiReply.op = "file-command" /\ "filename" \in DOMAIN apiReply.in
       /\ apiReply.in.os \in {"linux", "windows"}) =>
        LET unsafe(f) ==
                \/ \E i \in 1..Len(f) : f[i] \in {"/", "\\"}
                \/ \E i \in 1..(Len(f) - 1) : f[i] = "." /\ f[i + 1] = "."
            cmd == apiReply.body["command"]
            outFile == IF apiReply.in.os = "linux" THEN cmd[2] ELSE cmd[4]
            url == IF apiReply.in.os = "linux" THEN cmd[4] ELSE cmd[2]
        IN /\ unsafe(apiReply.in.filename) =>
                /\ apiReply.code = StatusBadRequest
                /\ "command" \notin DOMAIN apiReply.body
           /\ "command" \in DOMAIN apiReply.body =>
                /\ ~unsafe(outFile)
                /\ ~unsafe(url[Len(url)])

C21_Witness ==
    /\ apiReply.op = "file-command"
    /\ apiReply.in.os = "windows"
    /\ apiReply.in.filename = <<" ", ".", ".">>
    /\ apiReply.code = StatusBadRequest
    /\ apiReply.body = Obj("error", "invalid filename")
    /\ query = NoQuery

\* C22: two calls with the same host, protocol and mode in the same second
\* have the same artifact path, and once both have written it the file holds
\* the buffer of the call that wrote last.
C22_LastWriterWins ==
    \A j \in DOMAIN calls, k \in DOMAIN calls :
        /\ (calls[j].pc # "called" /\ calls[k].pc # "called"
              /\ calls[j].req.Host = calls[k].req.Host
              /\ calls[j].req.Protocol = calls[k].req.Protocol
              /\ calls[j].req.Mode = calls[k].req.Mode
              /\ calls[j].ts = calls[k].ts) => calls[j].path = calls[k].path
        /\ (j # k /\ calls[j].pc = "done" /\ calls[k].pc = "done"
              /\ calls[j].path = calls[k].path) =>
               artifacts[calls[k].path] = calls[wrote[Len(wrote)]].buf

\* C23: two calls for different hosts never have the same artifact path.
C23_DistinctHostsDistinctPaths ==
    \A j \in DOMAIN calls, k \in DOMAIN calls :
        (calls[j].pc # "called" /\ calls[k].pc # "called"
           /\ calls[j].req.Host # calls[k].req.Host) =>
            calls[j].path # calls[k].path

\* C24: the command the ssh backend runs does not depend on the password: it
\* is the command of the same request with any other non-empty password, and
\* its target is the user name and the host only.
C24_PasswordNotSent ==
    (scoutPc \in {"returned", "answered"} /\ scoutReq.Protocol = "ssh"
       /\ execd # <<>>) =>
        /\ \A pw \in {"p", "q"} :
              execd = runFSScoutSSH([scoutReq EXCEPT !.Password = pw],
                                    scoutLoc.Depth, writes[1].from,
                                    execd[1].failed, ~writes[1].ok).cmds
        /\ execd[1].name = "ssh"
        /\ execd[1].args[3] = <<scoutReq.Username, "@", scoutReq.Host>>

C24_Witness ==
    /\ scoutPc = "returned"
    /\ scoutReq.Protocol = "ssh" /\ scoutReq.Password = "q"
    /\ scoutRes.err = ""
    /\ Len(execd) = 1 /\ execd[1].name = "ssh"
    /\ execd[1].args[3] = <<"u", "@", <<"h">>>>

\* C25: no handler waits for a process to exit or for the network while it
\* holds a guard: while a file-server Stop is inside Shutdown, waiting for the
\* connections, fileSrvMu is free, so that a file-server Status returns
\* without waiting for the Shutdown.
C25_NoWaitUnderGuard ==
    \A c \in Clients :
        (pc[c] = "shut" /\ op[c] = "file-stop") =>
            /\ fileSrvMu # c
            /\ \A d \in Clients : Fresh(d) => ENABLED handleFileStatus(d)

\* C26: a proxy Stop that finds a handle starts the reaper for exactly the
\* process that was the handle, clears the handle, answers `stopped` and ends
\* with the guard free, whether or not the process has exited; the return of
\* a reaper changes neither the handle nor the guard and writes no response.
C26_StopDoesNotWait ==
    [][/\ (reply'.op = "stop-proxy" /\ reply'.val = "stopped") =>
            /\ proxyCmd # NoHandle
            /\ reapers' = reapers \cup {proxyCmd}
            /\ proxyCmd' = NoHandle
            /\ proxyMu' = NoClient
            /\ reply'.code = StatusOK
       /\ (reapers' # reapers /\ reapers' \subseteq reapers) =>
            /\ proxyCmd' = proxyCmd
            /\ proxyMu' = proxyMu
            /\ reply' = NoReply
            /\ UNCHANGED <<pc, op, last>>]_vars

C26_Witness ==
    /\ reply.op = "stop-proxy" /\ reply.val = "stopped"
    /\ proxyCmd = NoHandle
    /\ proxyMu = NoClient
    /\ \E p \in reapers : procs[p] = "killed"

\* C27: the two kinds have separate guards.  Whatever a file-server handler
\* is doing (a Stop inside Shutdown included), a proxy Start, Stop or Status
\* goes ahead as soon as proxyMu is free, and the other way round; and a step
\* of a handler of one kind leaves the handle, the guard and the instances of
\* the other kind alone.
C27_IndependentGuards ==
    /\ [](\A c \in Clients :
            /\ (Fresh(c) /\ proxyMu = NoClient) =>
                  /\ ENABLED handleStartProxy(c)
                  /\ ENABLED handleStopProxy(c)
                  /\ ENABLED handleStatus(c)
            /\ (Fresh(c) /\ fileSrvMu = NoClient) =>
                  /\ ENABLED handleFileStart(c)
                  /\ ENABLED handleFileStop(c)
                  /\ ENABLED handleFileStatus(c))
    /\ [][/\ (\/ reply'.op \in {"start-proxy", "stop-proxy", "status"}
              \/ \E c \in Clients : op'[c] = "start-proxy" /\ op[c] = "") =>
                UNCHANGED <<fileSrvMu, fileSrv, srvs>>
          /\ (\/ reply'.op \in {"file-start", "file-stop", "file-status"}
              \/ \E c \in Clients : op'[c] \in {"file-start", "file-stop"}
                                        /\ op[c] = "") =>
                UNCHANGED <<proxyMu, proxyCmd, procs, reapers>>]_vars

C27_Witness ==
    /\ \E c \in Clients : pc[c] = "shut" /\ op[c] = "file-stop" /\ fileSrvMu = c
    /\ reply.op = "stop-proxy" /\ reply.val = "stopped"
    /\ proxyCmd = NoHandle
    /\ fileSrv # NoHandle

\* C28: a Stop that finds a handle has one outcome: the handle is nil and the
\* answer is 200 `stopped`, also when Kill returned an error (the process
\* goes on running) and when Shutdown ran into its timeout (connections are
\* still open); no error reaches the caller.
C28_StopNeverFails ==
    [][/\ (reply'.op = "stop-proxy" /\ proxyCmd # NoHandle) =>
            /\ reply'.code = StatusOK
            /\ reply'.key = "status" /\ reply'.val = "stopped"
            /\ proxyCmd' = NoHandle
       /\ (reply'.op = "file-stop" /\ fileSrv # NoHandle) =>
            /\ reply'.code = StatusOK
            /\ reply'.key = "status" /\ reply'.val = "stopped"
            /\ fileSrv' = NoHandle]_vars

C28_Witness ==
    /\ reply.op = "stop-proxy" /\ reply.code = StatusOK /\ reply.val = "stopped"
    /\ proxyCmd = NoHandle
    /\ \E p \in reapers : procs[p] = "running"
    /\ fileSrv = NoHandle
    /\ \E s \in Sids : srvs[s] = "draining"

\* C29: a Stop leaves its kind ready for the next Start.  When the most
\* recent completed Start/Stop of a kind is a Stop (or a Start that failed)
\* and no handler holds the guard, the handle is nil; a Start that follows is
\* never rejected as already running; and a Start whose spawn or bind
\* succeeded answers `started` and stores the handle it made.
C29_RestartAfterStop ==
    /\ []((last.proxy = "down" /\ proxyMu = NoClient) => proxyCmd = NoHandle)
    /\ []((last.file = "down" /\ fileSrvMu = NoClient) => fileSrv = NoHandle)
    /\ [][/\ (reply'.op \in StartOps /\ reply'.after = "down") =>
                reply'.code # StatusConflict
          /\ \A c \in Clients :
                (pc[c] = "made" /\ pc'[c] = "idle" /\ op[c] = "start-proxy") =>
                    /\ reply'.code = StatusOK /\ reply'.val = "started"
                    /\ proxyCmd' = loc[c] /\ proxyCmd' # NoHandle
          /\ \A c \in Clients :
                (pc[c] = "made" /\ pc'[c] = "idle" /\ op[c] = "file-start") =>
                    /\ reply'.code = StatusOK /\ reply'.val = "started"
                    /\ fileSrv' = loc[c] /\ fileSrv' # NoHandle]_vars

C29_Witness ==
    /\ reply.op = "start-proxy" /\ reply.val = "started"
    /\ reply.after = "down"
    /\ proxyCmd # NoHandle /\ procs[proxyCmd] = "running"
    /\ reapers # {}
    /\ proxyCmd \notin reapers

\* C30: a handler that has returned holds no guard, whatever path it returned
\* on, and a call that has not yet responded is the holder of its guard; so,
\* given that spawn, bind and Shutdown return, each guard that is held
\* becomes free, which is the holder responding, and no call waits for a
\* guard for ever.
C30_GuardsReleased ==
    /\ [](\A c \in Clients :
            /\ pc[c] = "idle" => (proxyMu # c /\ fileSrvMu # c)
            /\ pc[c] # "idle" =>
                  IF op[c] = "start-proxy" THEN proxyMu = c ELSE fileSrvMu = c)
    /\ (proxyMu # NoClient) ~> (proxyMu = NoClient)
    /\ (fileSrvMu # NoClient) ~> (fileSrvMu = NoClient)

C30_Witness ==
    /\ proxyMu = NoClient /\ fileSrvMu = NoClient
    /\ reply.op = "file-start" /\ reply.code = StatusBadRequest
    /\ \E p \in Pids : procs[p] = "running" /\ proxyCmd = p
    /\ \E s \in Sids : srvs[s] = "draining"

\* C31: whatever host passes validation, the directory RunFSScout creates is
\* a subdirectory of <loot-root>/fs and the artifact it writes is a file inside
\* such a subdirectory: nothing is created or written outside <loot-root>/fs,
\* directly in it, or in <loot-root>.
C31_BelowFsRoot ==
    LET fsRoot == Append(LootRoot, "fs")
        below(p, n) == Len(p) >= n /\ SubSeq(p, 1, Len(fsRoot)) = fsRoot
    IN /\ scoutLoc.outPath # <<>> =>
             /\ below(fsBase(scoutReq), Len(fsRoot) + 1)
             /\ below(scoutLoc.outPath, Len(fsRoot) + 2)
       /\ \A p \in disk : below(p, Len(fsRoot) + 1)
       /\ \A i \in DOMAIN writes : below(writes[i].path, Len(fsRoot) + 2)

\* the scheduler runs a goroutine that can take a step; Shutdown returns when
\* its context expires
FairSpec ==
    /\ Spec
    /\ \A c \in Clients : WF_vars(handleFileStopDone(c))
    /\ \A c \in Clients : WF_vars(handleStartProxyStore(c))
    /\ \A c \in Clients : WF_vars(handleFileStartStore(c))

=============================================================================
